---------------------------- MODULE Spec2Model ----------------------------
(***************************************************************************)
(* A model of hw3.py: the label writer, the vocabulary builder, the metric *)
(* evaluator, the cross-validation runner and the two grid searches.       *)
(*                                                                         *)
(* Python arrays and lists are 1-based sequences here (Python index i is   *)
(* index i+1), except the confusion matrix, which keeps Python's 0-based   *)
(* indices because the code addresses it by literal index.  A float score  *)
(* is an exact fraction: a pair num/den in lowest terms with den > 0.      *)
(***************************************************************************)
EXTENDS Integers, Sequences, FiniteSets, TLC

VARIABLES
  pc,         \* position of the running function
  ret,        \* what the running function returned or raised
  stdout,     \* lines printed so far
  metric,     \* the metric argument
  y_true,     \* performance: the caller's label array
  y_pred,     \* performance: the caller's prediction array
  y_label,    \* performance: the local binarized array
  given,      \* history: the arrays as the caller passed them to performance
  y,          \* the data set's label vector
  kf,         \* kf.split(X, y): the sequence of (train, test) pairs
  clf,        \* the classifier instance in use
  made,       \* number of SVC instances constructed so far
  fits,       \* the fit calls made so far, in order
  score,      \* cv_performance: the list of per-fold scores
  Res,        \* select_param_linear: the list of per-candidate scores
  ci,         \* grid searches: number of C candidates finished
  gi,         \* select_param_rbf: number of gammas finished for the current C
  maxc,       \* select_param_rbf: best C so far (select_param_linear: best index)
  maxg,       \* select_param_rbf: best gamma so far
  maxv,       \* select_param_rbf: best score so far
  seenmax,    \* history: the largest score cv_performance returned in the sweep
  vec,        \* write_label_answer: the vector argument
  outfile,    \* the output file on disk
  calls,      \* write_label_answer: number of calls made
  fid,        \* extract_dictionary: the unread rest of the input file
  l,          \* extract_dictionary: the unprocessed words of the current line
  word_list,  \* extract_dictionary: the dictionary
  scanned     \* history: the words processed so far, in order

vars == << pc, ret, stdout, metric, y_true, y_pred, y_label, given, y, kf, clf, made,
           fits, score, Res, ci, gi, maxc, maxg, maxv, seenmax, vec, outfile,
           calls, fid, l, word_list, scanned >>

evalVars == << y_true, y_pred, y_label, given >>
cvVars == << y, kf, clf, made, fits, score >>
gridVars == << Res, ci, gi, maxc, maxg, maxv, seenmax >>
writeVars == << vec, outfile, calls >>
dictVars == << fid, l, word_list, scanned >>

-----------------------------------------------------------------------------
(* Bounds of the model *)

\* longest label / prediction vector handed to performance
MaxLen == 4
\* write_label_answer is called with ExpectedRows - RowSlack .. ExpectedRows + RowSlack rows
RowSlack == 1
\* number of calls of write_label_answer in a run
MaxCalls == 2
\* longest input file of extract_dictionary, in characters
MaxChars == 4
\* largest data set handed to cv_performance, in examples
MaxExamples == 4

-----------------------------------------------------------------------------
(* Constants of the program *)

\* the number of labels write_label_answer accepts
ExpectedRows == 70
\* np.arange(-3, 3): the exponents of the candidate grid, ExpLo .. ExpHi - 1
ExpLo == -3
ExpHi == 3

-----------------------------------------------------------------------------
(* Fractions *)

RECURSIVE Gcd(_, _)
Gcd(a, b) == IF b = 0 THEN a ELSE Gcd(b, a % b)

\* num/den in lowest terms (num >= 0, den > 0)
Frac(num, den) ==
  IF num = 0 THEN << 0, 1 >>
  ELSE LET g == Gcd(num, den) IN << num \div g, den \div g >>

FracEq(a, b) == a[1] * b[2] = b[1] * a[2]
FracGt(a, b) == a[1] * b[2] > b[1] * a[2]
FracAdd(a, b) == Frac(a[1] * b[2] + b[1] * a[2], a[2] * b[2])

\* a function's outcome: a returned score, or a raised exception
Return(f, out) == [kind |-> "return", val |-> f, err |-> "", out |-> out]
Raise(e) == [kind |-> "raise", val |-> << 0, 1 >>, err |-> e, out |-> << >>]
NoRet == [kind |-> "none", val |-> << 0, 1 >>, err |-> "", out |-> << >>]

-----------------------------------------------------------------------------
(* performance *)

Labels == {1, -1}
\* continuous-valued predictions: negative, exactly zero, positive
PredVals == {-1, 0, 1, 2}
KnownMetrics == {"accuracy", "f1-score", "auroc", "precision", "sensitivity",
                 "specificity"}
Metrics == KnownMetrics \cup {"recall"}

Sign(x) == IF x > 0 THEN 1 ELSE IF x < 0 THEN -1 ELSE 0

\* np.sign(y_pred): a new array
SignOf(a) == [i \in DOMAIN a |-> Sign(a[i])]

ZeroToMinusOne(a) == [i \in DOMAIN a |-> IF a[i] = 0 THEN -1 ELSE a[i]]
\* y_label[y_label==0] = 1
ZeroToOne(a) == [i \in DOMAIN a |-> IF a[i] = 0 THEN 1 ELSE a[i]]

Count(a, P(_)) == Cardinality({i \in DOMAIN a : P(i)})

\* metrics.confusion_matrix(y_true, y_label): one row and one column per
\* label that occurs in either array, in increasing label order;
\* m[i][j] counts the positions with true label i and predicted label j.
confusion_matrix(yt, yl) ==
  LET present == {yt[i] : i \in DOMAIN yt} \cup {yl[i] : i \in DOMAIN yl}
      k == Cardinality(present)
      lab == CHOOSE f \in [0 .. k - 1 -> present] :
               \A i, j \in 0 .. k - 1 : i < j => f[i] < f[j]
  IN [i \in 0 .. k - 1 |->
        [j \in 0 .. k - 1 |->
           Cardinality({p \in DOMAIN yt : yt[p] = lab[i] /\ yl[p] = lab[j]})]]

\* metrics.accuracy_score
accuracy_score(yt, yl) ==
  Frac(Count(yt, LAMBDA i : yt[i] = yl[i]), Len(yt))

\* metrics.precision_score (positive label 1; 0 when nothing is predicted positive)
precision_score(yt, yl) ==
  LET tp == Count(yt, LAMBDA i : yt[i] = 1 /\ yl[i] = 1)
      fp == Count(yt, LAMBDA i : yt[i] = -1 /\ yl[i] = 1)
  IN IF tp + fp = 0 THEN << 0, 1 >> ELSE Frac(tp, tp + fp)

\* metrics.f1_score (positive label 1; 0 when precision + recall is 0)
f1_score(yt, yl) ==
  LET tp == Count(yt, LAMBDA i : yt[i] = 1 /\ yl[i] = 1)
      fp == Count(yt, LAMBDA i : yt[i] = -1 /\ yl[i] = 1)
      fn == Count(yt, LAMBDA i : yt[i] = 1 /\ yl[i] = -1)
  IN IF tp = 0 THEN << 0, 1 >> ELSE Frac(2 * tp, 2 * tp + fp + fn)

\* metrics.roc_auc_score on the raw predictions: the share of
\* (positive, negative) pairs ranked correctly, ties counting one half;
\* ValueError when y_true holds a single class.
roc_auc_score(yt, yp) ==
  LET pos == {i \in DOMAIN yt : yt[i] = 1}
      neg == {i \in DOMAIN yt : yt[i] = -1}
      gt == Cardinality({q \in pos \X neg : yp[q[1]] > yp[q[2]]})
      eq == Cardinality({q \in pos \X neg : yp[q[1]] = yp[q[2]]})
  IN IF pos = {} \/ neg = {}
     THEN Raise("ValueError")
     ELSE Return(Frac(2 * gt + eq, 2 * Cardinality(pos) * Cardinality(neg)), << >>)

\* the 'sensitivity' branch
Sensitivity(yt, yl) ==
  LET m == confusion_matrix(yt, yl)
  IN IF 1 \notin DOMAIN m
     THEN Raise("IndexError")
     ELSE IF m[1][1] = 0 /\ m[1][0] = 0
          THEN Return(<< 0, 1 >>, << >>)
          ELSE Return(Frac(m[1][1], m[1][0] + m[1][1]), << >>)

\* the 'specificity' branch
Specificity(yt, yl) ==
  LET m == confusion_matrix(yt, yl)
  IN IF 1 \notin DOMAIN m
     THEN Raise("IndexError")
     ELSE IF m[1][1] = 0 /\ m[0][1] = 0
          THEN Return(<< 0, 1 >>, << >>)
          ELSE Return(Frac(m[1][1], m[1][1] + m[0][1]), << >>)

\* the branch taken for a metric name that matches none of the six
UnknownMetric == Return(<< 0, 1 >>, << "Unknown Metrics!!!!!" >>)

\* performance(y_true, y_pred, metric), given the binarized array
Score(yt, yp, yl, m) ==
  CASE m = "accuracy" -> Return(accuracy_score(yt, yl), << >>)
    [] m = "f1-score" -> Return(f1_score(yt, yl), << >>)
    [] m = "auroc" -> roc_auc_score(yt, yp)
    [] m = "precision" -> Return(precision_score(yt, yl), << >>)
    [] m = "sensitivity" -> Sensitivity(yt, yl)
    [] m = "specificity" -> Specificity(yt, yl)
    [] OTHER -> UnknownMetric

\* y_label = np.sign(y_pred); y_label[y_label==0] = 1: the local array, and
\* the caller's array as the two statements leave it
Binarize(yp) == [pred |-> yp, label |-> ZeroToOne(SignOf(yp))]

\* performance(y_true, y_pred, metric)
performance(yt, yp, m) ==
  LET b == Binarize(yp) IN Score(yt, b.pred, b.label, m)

\* the vectors of length 1 .. n over the set S
Vectors(S, n) == UNION {[1 .. k -> S] : k \in 1 .. n}

IdleEval ==
  /\ y_true = << >> /\ y_pred = << >> /\ y_label = << >> /\ given = << >>
IdleCv ==
  /\ y = << >> /\ kf = << >> /\ clf = << >> /\ made = 0 /\ fits = << >>
  /\ score = << >>
IdleGrid ==
  /\ Res = << >> /\ ci = 0 /\ gi = 0 /\ maxc = 0 /\ maxg = 0
  /\ maxv = << 0, 1 >> /\ seenmax = << -1, 1 >>
IdleWrite == vec = << >> /\ outfile = << >> /\ calls = 0
IdleDict == fid = << >> /\ l = << >> /\ word_list = << >> /\ scanned = << >>

InitPerf ==
  /\ pc = "performance"
  /\ ret = NoRet
  /\ stdout = << >>
  /\ metric \in Metrics
  /\ y_true \in Vectors(Labels, MaxLen)
  /\ y_pred \in [DOMAIN y_true -> PredVals]
  /\ y_label = << >>
  /\ given = << y_true, y_pred >>
  /\ IdleCv /\ IdleGrid /\ IdleWrite /\ IdleDict

\* one call of performance, from entry to return or raise
Performance ==
  /\ pc = "performance"
  /\ LET b == Binarize(y_pred)
         r == Score(y_true, b.pred, b.label, metric)
     IN /\ y_pred' = b.pred
        /\ y_label' = b.label
        /\ ret' = r
        /\ stdout' = stdout \o r.out
  /\ pc' = "done"
  /\ UNCHANGED << metric, y_true, given, cvVars, gridVars, writeVars, dictVars >>

NextPerf == Performance

SpecPerf == InitPerf /\ [][NextPerf]_vars


-----------------------------------------------------------------------------
(* write_label_answer *)

\* a file that does not exist, and a file holding the given lines
Absent == [exists |-> FALSE, lines |-> << >>]
File(lines) == [exists |-> TRUE, lines |-> lines]

\* a numpy array of shape (n,) or (n,1) whose entries repeat the pattern p
Array(shape, p) ==
  [shape |-> shape,
   data |-> [i \in 1 .. shape[1] |-> p[((i - 1) % Len(p)) + 1]]]

RowCounts == (ExpectedRows - RowSlack) .. (ExpectedRows + RowSlack)
Arrays ==
  {Array(sh, p) : sh \in {<< n >> : n \in RowCounts} \cup
                          {<< n, 1 >> : n \in RowCounts},
                  p \in Vectors(Labels, 2)}

TooFewRows(v) == v.shape[1] < ExpectedRows
\* vec.shape[0] != 70
WrongRows(v) == v.shape[1] # ExpectedRows

\* np.savetxt(outfile, vec): one line per row, each holding the row's number
savetxt(v) == File([i \in 1 .. v.shape[1] |-> << v.data[i] >>])

\* write_label_answer(vec, outfile), on the file system state fs: the file
\* afterwards and the lines printed
write_label_answer(v, fs) ==
  IF WrongRows(v)
  THEN [file |-> fs,
        out |-> << "Error - output vector should have 70 rows.",
                   "Aborting write." >>]
  ELSE [file |-> savetxt(v), out |-> << >>]

InitWrite ==
  /\ pc = "main"
  /\ ret = NoRet
  /\ stdout = << >>
  /\ metric = ""
  /\ vec = << >>
  /\ outfile \in {Absent, File(<< << 0 >> >>)}
  /\ calls = 0
  /\ IdleEval /\ IdleCv /\ IdleGrid /\ IdleDict

\* one call of write_label_answer, from entry to return
WriteLabelAnswer ==
  /\ pc = "main"
  /\ calls < MaxCalls
  /\ \E v \in Arrays :
       LET r == write_label_answer(v, outfile)
       IN /\ vec' = v
          /\ outfile' = r.file
          /\ stdout' = r.out
  /\ calls' = calls + 1
  /\ UNCHANGED << pc, ret, metric, evalVars, cvVars, gridVars, dictVars >>

NextWrite == WriteLabelAnswer

SpecWrite == InitWrite /\ [][NextWrite]_vars

\* C8: write_label_answer writes a file only when the vector has exactly 70
\* rows: a call with any other row count prints the error and leaves the
\* output file as it was (not created, not overwritten), and a call with 70
\* rows leaves a file of 70 numeric lines, the vector's entries in order.
TheoremC8 ==
  [][calls' = calls + 1 =>
       IF vec'.shape[1] # 70
       THEN /\ outfile' = outfile
            /\ stdout' = << "Error - output vector should have 70 rows.",
                            "Aborting write." >>
       ELSE /\ outfile'.exists
            /\ Len(outfile'.lines) = 70
            /\ \A i \in 1 .. 70 :
                 /\ Len(outfile'.lines[i]) = 1
                 /\ outfile'.lines[i][1] = vec'.data[i]
                 /\ outfile'.lines[i][1] \in Int
            /\ stdout' = << >>]_vars

\* a 71-row vector was just rejected, and the 70 lines an earlier call wrote
\* for a different vector are still in the file
WitnessC8 ==
  /\ calls = 2
  /\ vec.shape[1] = 71
  /\ stdout # << >>
  /\ outfile.exists
  /\ Len(outfile.lines) = 70
  /\ \E i \in 1 .. 70 : outfile.lines[i][1] # vec.data[i]

-----------------------------------------------------------------------------
(* extract_words and extract_dictionary *)

\* A string is a sequence of characters; a word is a non-empty string
\* without whitespace.
Chars == {"a", "A", ".", "!", " ", "\n"}
\* string.punctuation, in its order, restricted to Chars
punctuation == << "!", "." >>
Whitespace == {" ", "\n"}

RECURSIVE replace(_, _)
\* input_string.replace(c, ' ' + c + ' ')
replace(str, c) ==
  IF str = << >> THEN << >>
  ELSE (IF Head(str) = c THEN << " ", c, " " >> ELSE << Head(str) >>)
         \o replace(Tail(str), c)

RECURSIVE ReplaceAll(_, _)
\* for c in punctuation: input_string = input_string.replace(...)
ReplaceAll(str, i) ==
  IF i > Len(punctuation) THEN str
  ELSE ReplaceAll(replace(str, punctuation[i]), i + 1)

\* str.lower()
lower(str) == [i \in DOMAIN str |-> IF str[i] = "A" THEN "a" ELSE str[i]]

RECURSIVE SplitFrom(_, _)
\* str.split(): the maximal runs of non-whitespace characters, in order;
\* cur is the run being read
SplitFrom(str, cur) ==
  IF str = << >> THEN (IF cur = << >> THEN << >> ELSE << cur >>)
  ELSE IF Head(str) \in Whitespace
       THEN (IF cur = << >> THEN << >> ELSE << cur >>) \o SplitFrom(Tail(str), << >>)
       ELSE SplitFrom(Tail(str), Append(cur, Head(str)))

split(str) == SplitFrom(str, << >>)

extract_words(input_string) == split(lower(ReplaceAll(input_string, 1)))

\* fid.readline(): the text up to and including the first newline, or the
\* whole rest when it holds none
LineLen(text) ==
  IF \E i \in DOMAIN text : text[i] = "\n"
  THEN CHOOSE i \in DOMAIN text :
         text[i] = "\n" /\ \A j \in 1 .. i - 1 : text[j] # "\n"
  ELSE Len(text)
readline(text) == SubSeq(text, 1, LineLen(text))

GetDefault(d, k, default) == default
\* word_list.get(s, default)
Get(d, k, default) == IF k \in DOMAIN d THEN d[k] ELSE default

\* word_list[s] = v
SetItem(d, k, v) == [t \in DOMAIN d \cup {k} |-> IF t = k THEN v ELSE d[t]]

Texts == UNION {[1 .. n -> Chars] : n \in 0 .. MaxChars}

InitDict ==
  /\ pc = "readline"
  /\ ret = NoRet
  /\ stdout = << >>
  /\ metric = ""
  /\ fid \in Texts
  /\ l = << >>
  /\ word_list = << >>
  /\ scanned = << >>
  /\ IdleEval /\ IdleCv /\ IdleGrid /\ IdleWrite

\* line = fid.readline() returned a line: l = extract_words(line)
ReadLine ==
  /\ pc = "readline"
  /\ fid # << >>
  /\ l' = extract_words(readline(fid))
  /\ fid' = SubSeq(fid, LineLen(fid) + 1, Len(fid))
  /\ pc' = "words"
  /\ UNCHANGED << ret, stdout, metric, word_list, scanned, evalVars, cvVars,
                  gridVars, writeVars >>

\* one round of "for s in l": word_list[s] = word_list.get(s, len(word_list))
AddWord ==
  /\ pc = "words"
  /\ l # << >>
  /\ LET s == Head(l)
     IN /\ word_list' = SetItem(word_list, s,
                                Get(word_list, s, Cardinality(DOMAIN word_list)))
        /\ scanned' = Append(scanned, s)
  /\ l' = Tail(l)
  /\ UNCHANGED << pc, ret, stdout, metric, fid, evalVars, cvVars, gridVars,
                  writeVars >>

\* the words of the line are used up: read the next line
EndOfLine ==
  /\ pc = "words"
  /\ l = << >>
  /\ pc' = "readline"
  /\ UNCHANGED << ret, stdout, metric, dictVars, evalVars, cvVars, gridVars,
                  writeVars >>

\* readline returned '': print(len(word_list)); return word_list
ReturnDictionary ==
  /\ pc = "readline"
  /\ fid = << >>
  /\ stdout' = Append(stdout, Cardinality(DOMAIN word_list))
  /\ pc' = "returned"
  /\ UNCHANGED << ret, metric, dictVars, evalVars, cvVars, gridVars, writeVars >>

NextDict == ReadLine \/ AddWord \/ EndOfLine \/ ReturnDictionary

SpecDict == InitDict /\ [][NextDict]_vars

\* the words of sq, each at its first occurrence only, in order
RECURSIVE FirstSeen(_)
FirstSeen(sq) ==
  IF sq = << >> THEN << >>
  ELSE LET init == FirstSeen(SubSeq(sq, 1, Len(sq) - 1))
           w == sq[Len(sq)]
       IN IF \E i \in DOMAIN init : init[i] = w THEN init ELSE Append(init, w)

\* C10: after every step of the scan the dictionary maps its words
\* one-to-one onto 0 .. size-1; a word met for the first time gets
\* index = current size, a word already present keeps its index, and no
\* entry is removed or reassigned: at every moment, and so at the end, the
\* index of each word is its rank in first-occurrence order over the words
\* scanned so far.
TheoremC10 ==
  LET order == FirstSeen(scanned)
  IN /\ DOMAIN word_list = {order[i] : i \in DOMAIN order}
     /\ \A i \in DOMAIN order : word_list[order[i]] = i - 1
     /\ {word_list[w] : w \in DOMAIN word_list} =
          0 .. Cardinality(DOMAIN word_list) - 1
     /\ \A v, w \in DOMAIN word_list : word_list[v] = word_list[w] => v = w

\* the scan has ended on a corpus in which an already-indexed word came up
\* again, after a second word had been indexed, and a third word after it
WitnessC10 ==
  /\ pc = "returned"
  /\ Len(scanned) = 4
  /\ scanned[1] = scanned[3]
  /\ Cardinality(DOMAIN word_list) = 3
  /\ word_list[scanned[1]] = 0
  /\ word_list[scanned[2]] = 1
  /\ word_list[scanned[4]] = 2

-----------------------------------------------------------------------------
(* cv_performance *)

\* The examples are numbered 1 .. Len(y); X[idx] and y[idx] take the rows of
\* an index set in increasing order.
RECURSIVE Sorted(_)
Sorted(S) ==
  IF S = {} THEN << >>
  ELSE LET lo == CHOOSE a \in S : \A b \in S : a <= b
       IN << lo >> \o Sorted(S \ {lo})
Take(yv, idx) == [j \in 1 .. Cardinality(idx) |-> yv[Sorted(idx)[j]]]

\* kf.split(X, y): k >= 2 pairs whose test sets partition the examples, each
\* train set the complement of its test set
Partitions(n) ==
  UNION {{[i \in 1 .. k |-> [train |-> {j \in 1 .. n : g[j] # i},
                              test |-> {j \in 1 .. n : g[j] = i}]] :
            g \in {h \in [1 .. n -> 1 .. k] :
                     \A i \in 1 .. k : \E j \in 1 .. n : h[j] = i}} :
         k \in 2 .. n}

\* two folds in example order: the first half tested first
Halves(n) ==
  LET first == 1 .. ((n + 1) \div 2)
      second == (1 .. n) \ first
  IN << [train |-> second, test |-> first], [train |-> first, test |-> second] >>

\* SVC(C=c, kernel=..., gamma=...): a new, unfitted instance
SVC(id, kernel, c, gamma) ==
  [id |-> id, kernel |-> kernel, C |-> c, gamma |-> gamma, fitted |-> {}]

\* clf.fit(X_train, y_train): the instance's model is now the one of this
\* training subset, whatever it was fitted on before
fit(c, train) == [c EXCEPT !.fitted = train]

\* SVC.fit refuses a training subset that holds a single class (ValueError)
Fittable(yv, train) == Cardinality({yv[j] : j \in train}) > 1

\* clf.decision_function(X_test): one continuous value per test row; the
\* values are the library's, any array of that length here
Decisions(f) == [1 .. Cardinality(f.test) -> PredVals]
\* the same for every fold of a partition, in a sweep: the values there
\* are a negative and a positive one
SweepVals == {-1, 1}
DecisionSeqs(folds) ==
  LET all == UNION {[1 .. Cardinality(folds[i].test) -> SweepVals] :
                      i \in DOMAIN folds}
  IN {D \in [DOMAIN folds -> all] :
        \A i \in DOMAIN folds : Len(D[i]) = Cardinality(folds[i].test)}

RECURSIVE FracSum(_)
FracSum(sc) == IF sc = << >> THEN << 0, 1 >> ELSE FracAdd(Head(sc), FracSum(Tail(sc)))
\* np.average(np.array(score))
average(sc) == LET t == FracSum(sc) IN Frac(t[1], t[2] * Len(sc))

\* the state of a cv_performance call: the instance, the fit calls made, the
\* score list, the lines printed and the outcome
CvEntry(c) ==
  [clf |-> c, fits |-> << >>, score |-> << >>, out |-> << >>, ret |-> NoRet]

\* one round of the loop over kf.split(X, y), with d the decision values
CvStep(st, yv, f, d, m) ==
  LET y_test == Take(yv, f.test)
      r == performance(y_test, d, m)
      call == [inst |-> st.clf.id, prior |-> st.clf.fitted, train |-> f.train]
  IN IF ~Fittable(yv, f.train)
     THEN [st EXCEPT !.fits = Append(@, call @@ [scored |-> {}, labelled |-> {}]),
                     !.ret = Raise("ValueError")]
     ELSE [clf |-> fit(st.clf, f.train),
           fits |-> Append(st.fits,
                           call @@ [scored |-> f.test, labelled |-> f.test]),
           score |-> IF r.kind = "return" THEN Append(st.score, r.val)
                                         ELSE st.score,
           out |-> st.out \o r.out,
           ret |-> IF r.kind = "return" THEN NoRet ELSE r]

\* score = np.array(score); return np.average(score)
CvReturn(st) == [st EXCEPT !.ret = Return(average(st.score), << >>)]

RECURSIVE CvLoop(_, _, _, _, _, _)
CvLoop(st, yv, folds, D, m, i) ==
  IF i > Len(folds) THEN CvReturn(st)
  ELSE LET nx == CvStep(st, yv, folds[i], D[i], m)
       IN IF nx.ret.kind = "raise" THEN nx
          ELSE CvLoop(nx, yv, folds, D, m, i + 1)

\* cv_performance(clf, X, y, kf, metric), from entry to return or raise
cv_performance(c, yv, folds, D, m) == CvLoop(CvEntry(c), yv, folds, D, m, 1)

InitCv ==
  /\ pc = "cv_loop"
  /\ ret = NoRet
  /\ stdout = << >>
  /\ metric \in Metrics
  /\ \E n \in 2 .. MaxExamples :
       /\ y \in [1 .. n -> Labels]
       /\ kf \in Partitions(n)
  /\ clf = SVC(1, "linear", << 1, 1 >>, "default")
  /\ made = 1
  /\ fits = << >>
  /\ score = << >>
  /\ IdleEval /\ IdleGrid /\ IdleWrite /\ IdleDict

\* the round the loop is about to make, with d the decision values
CvNow(d) ==
  CvStep([clf |-> clf, fits |-> fits, score |-> score, out |-> << >>,
          ret |-> NoRet],
         y, kf[Len(fits) + 1], d, metric)

\* the effect of a round on the variables
CvApply(st) ==
  /\ clf' = st.clf
  /\ fits' = st.fits
  /\ score' = st.score
  /\ stdout' = stdout \o st.out
  /\ ret' = st.ret
  /\ UNCHANGED << metric, y, kf, made, evalVars, gridVars, writeVars, dictVars >>

\* one round of the loop: fit, decision_function, performance, append
CvFold ==
  /\ pc = "cv_loop"
  /\ Len(fits) < Len(kf)
  /\ \E d \in Decisions(kf[Len(fits) + 1]) :
       LET st == CvNow(d)
       IN st.ret.kind # "raise" /\ CvApply(st)
  /\ pc' = "cv_loop"

\* one round of the loop in which performance raises: the exception leaves
\* cv_performance
CvFoldRaises ==
  /\ pc = "cv_loop"
  /\ Len(fits) < Len(kf)
  /\ \E d \in Decisions(kf[Len(fits) + 1]) :
       LET st == CvNow(d)
       IN st.ret.kind = "raise" /\ CvApply(st)
  /\ pc' = "raised"

\* the loop is over: return the average
CvAverage ==
  /\ pc = "cv_loop"
  /\ Len(fits) = Len(kf)
  /\ ret' = Return(average(score), << >>)
  /\ pc' = "returned"
  /\ UNCHANGED << stdout, metric, cvVars, evalVars, gridVars, writeVars, dictVars >>

NextCv == CvFold \/ CvFoldRaises \/ CvAverage

SpecCv == InitCv /\ [][NextCv]_vars

\* C6: every fold is trained on a fresh, independently constructed
\* classifier instance: each fit call is made on an instance of its own that
\* carries no fit from an earlier fold, with that fold's train subset.
ClaimC6 ==
  pc = "returned" =>
     \A i \in DOMAIN fits :
        /\ fits[i].train = kf[i].train
        /\ fits[i].prior = {}
        /\ \A j \in DOMAIN fits : i # j => fits[i].inst # fits[j].inst

\* what cv_performance does when it gets as far as returning: one
\* train-then-score round per pair of the partition, in order, each scoring
\* the fold's test rows against their own labels, and the mean of the k scores
CvReturnsMean ==
  pc = "returned" =>
     /\ Len(fits) = Len(kf)
     /\ Len(score) = Len(kf)
     /\ \A i \in DOMAIN kf :
          /\ fits[i].inst = clf.id
          /\ fits[i].train = kf[i].train
          /\ fits[i].scored = kf[i].test
          /\ fits[i].labelled = kf[i].test
     /\ ret.kind = "return"
     /\ FracEq(<< ret.val[1] * Len(kf), ret.val[2] >>, FracSum(score))

\* C7: for every fold partition of length k, cv_performance makes exactly k
\* train-then-score rounds, one per pair in partition order, and returns
\* the arithmetic mean of those k per-fold scores.  The partitions taken
\* here are those every training subset of which holds both classes, so
\* that SVC.fit accepts each of them; and a call that ends in the library's
\* ValueError (roc_auc_score on a single-class test fold) is not held against
\* the claim.
ClaimC7 ==
  (/\ pc \in {"returned", "raised"}
   /\ \A i \in DOMAIN kf : Fittable(y, kf[i].train)
   /\ ret.err # "ValueError") =>
     (pc = "returned" /\ CvReturnsMean)

-----------------------------------------------------------------------------
(* select_param_linear and select_param_rbf *)

RECURSIVE Pow10(_)
Pow10(e) == IF e = 0 THEN 1 ELSE 10 * Pow10(e - 1)

\* 10.0 ** np.arange(-3, 3): the values 10^-3 .. 10^2 in increasing order
C_range == [i \in 1 .. (ExpHi - ExpLo) |-> Frac(Pow10(i - 1), Pow10(0 - ExpLo))]
g_range == C_range
Grid == {C_range[i] : i \in DOMAIN C_range}

\* the label vectors of the sweeps: one whose halves hold both classes and
\* one whose halves hold one class each
SweepLabels == {<< 1, -1, -1, 1 >>, << -1, -1, 1, 1 >>}

\* the metrics of the sweeps: the default, one of the two computed from the
\* confusion matrix, and a name that is none of the six
SweepMetrics == {"accuracy", "sensitivity", "recall"}

\* the data of a sweep, cross-validated in two folds
InitData ==
  /\ metric \in SweepMetrics
  /\ y \in SweepLabels
  /\ kf = Halves(Len(y))
  /\ clf = << >>
  /\ made = 0
  /\ fits = << >>
  /\ score = << >>

\* the effect of a finished cv_performance call on the caller's state: the
\* instance it constructed and passed, the fit calls made on it, the lines
\* printed (the call's own score list is gone with the call)
CvDone(st) ==
  /\ clf' = st.clf
  /\ made' = made + 1
  /\ fits' = st.fits
  /\ score' = score
  /\ stdout' = stdout \o st.out

NotWorse(a, b) == ~FracGt(b, a)
\* Res[i] > Res[maxc], res > maxv
Better(a, b) == FracGt(a, b)

RECURSIVE MaxLoop(_, _, _)
\* for i in range(len(C_range)): if Res[i] > Res[maxc]: maxc = i
MaxLoop(R, i, m) ==
  IF i > Len(R) THEN m
  ELSE MaxLoop(R, i + 1, IF Better(R[i], R[m]) THEN i ELSE m)

InitLinear ==
  /\ pc = "select_param_linear"
  /\ ret = NoRet
  /\ stdout = << >>
  /\ InitData
  /\ IdleEval /\ IdleGrid /\ IdleWrite /\ IdleDict

\* the header line, C_range, Res = []
LinearStart ==
  /\ pc = "select_param_linear"
  /\ stdout' = << << "Linear SVM Hyperparameter Selection based on ", metric, ":" >> >>
  /\ Res' = << >>
  /\ ci' = 0
  /\ pc' = "sweep"
  /\ UNCHANGED << ret, metric, cvVars, gi, maxc, maxg, maxv, seenmax, evalVars,
                  writeVars, dictVars >>

\* the cv_performance call of the round for C_range[ci + 1], on a new SVC
LinearCv(D) ==
  cv_performance(SVC(made + 1, "linear", C_range[ci + 1], "default"),
                 y, kf, D, metric)

\* one round of "for c in C_range": construct, cross-validate, append
LinearCandidate ==
  /\ pc = "sweep"
  /\ ci < Len(C_range)
  /\ \E D \in DecisionSeqs(kf) :
       LET st == LinearCv(D)
       IN /\ st.ret.kind = "return"
          /\ CvDone(st)
          /\ Res' = Append(Res, st.ret.val)
  /\ ci' = ci + 1
  /\ UNCHANGED << pc, ret, metric, y, kf, gi, maxc, maxg, maxv, seenmax,
                  evalVars, writeVars, dictVars >>

\* a round in which cv_performance raises: the exception leaves the sweep
LinearRaises ==
  /\ pc = "sweep"
  /\ ci < Len(C_range)
  /\ \E D \in DecisionSeqs(kf) :
       LET st == LinearCv(D)
       IN /\ st.ret.kind = "raise"
          /\ CvDone(st)
          /\ ret' = st.ret
  /\ pc' = "raised"
  /\ UNCHANGED << metric, y, kf, gridVars, evalVars, writeVars, dictVars >>

\* after the sweep: the plot (not modelled), the loop for maxc, the result
\* line, return C_range[maxc]
LinearSelect ==
  /\ pc = "sweep"
  /\ ci = Len(C_range)
  /\ maxc' = MaxLoop(Res, 1, 1)
  /\ stdout' = Append(stdout, << C_range[maxc'], " and the ", metric, " is: ",
                                Res[maxc'] >>)
  /\ ret' = Return(C_range[maxc'], << >>)
  /\ pc' = "returned"
  /\ UNCHANGED << metric, cvVars, Res, ci, gi, maxg, maxv, seenmax, evalVars,
                  writeVars, dictVars >>

NextLinear == LinearStart \/ LinearCandidate \/ LinearRaises \/ LinearSelect

SpecLinear == InitLinear /\ [][NextLinear]_vars

InitRbf ==
  /\ pc = "select_param_rbf"
  /\ ret = NoRet
  /\ stdout = << >>
  /\ InitData
  /\ IdleEval /\ IdleGrid /\ IdleWrite /\ IdleDict

\* the header line, the two ranges, maxc, maxg = 0, 0 and maxv = 0
RbfStart ==
  /\ pc = "select_param_rbf"
  /\ stdout' = << << "RBF SVM Hyperparameter Selection based on ", metric, ":" >> >>
  /\ maxc' = << 0, 1 >>
  /\ maxg' = << 0, 1 >>
  /\ maxv' = << 0, 1 >>
  /\ ci' = 0
  /\ gi' = 0
  /\ pc' = "sweep"
  /\ UNCHANGED << ret, metric, cvVars, Res, seenmax, evalVars, writeVars, dictVars >>

\* the cv_performance call of the round for (C_range[ci+1], g_range[gi+1])
RbfCv(D) ==
  cv_performance(SVC(made + 1, "rbf", C_range[ci + 1], g_range[gi + 1]),
                 y, kf, D, metric)

\* one round of the two nested loops: construct, cross-validate, and keep
\* the pair when res > maxv
RbfCandidate ==
  /\ pc = "sweep"
  /\ ci < Len(C_range)
  /\ \E D \in DecisionSeqs(kf) :
       LET st == RbfCv(D)
           res == st.ret.val
       IN /\ st.ret.kind = "return"
          /\ CvDone(st)
          /\ IF Better(res, maxv)
             THEN /\ maxc' = C_range[ci + 1]
                  /\ maxg' = g_range[gi + 1]
                  /\ maxv' = res
             ELSE UNCHANGED << maxc, maxg, maxv >>
          /\ seenmax' = IF FracGt(res, seenmax) THEN res ELSE seenmax
  /\ IF gi + 1 < Len(g_range)
     THEN gi' = gi + 1 /\ ci' = ci
     ELSE gi' = 0 /\ ci' = ci + 1
  /\ UNCHANGED << pc, ret, metric, y, kf, Res, evalVars, writeVars, dictVars >>

\* a round in which cv_performance raises: the exception leaves the sweep
RbfRaises ==
  /\ pc = "sweep"
  /\ ci < Len(C_range)
  /\ \E D \in DecisionSeqs(kf) :
       LET st == RbfCv(D)
       IN /\ st.ret.kind = "raise"
          /\ CvDone(st)
          /\ ret' = st.ret
  /\ pc' = "raised"
  /\ UNCHANGED << metric, y, kf, gridVars, evalVars, writeVars, dictVars >>

\* return maxc, maxg, maxv
RbfReturn ==
  /\ pc = "sweep"
  /\ ci = Len(C_range)
  /\ ret' = Return(<< maxc, maxg, maxv >>, << >>)
  /\ pc' = "returned"
  /\ UNCHANGED << stdout, metric, cvVars, gridVars, evalVars, writeVars, dictVars >>

NextRbf == RbfStart \/ RbfCandidate \/ RbfRaises \/ RbfReturn

SpecRbf == InitRbf /\ [][NextRbf]_vars

\* C5: select_param_linear returns the candidate whose cross-validation
\* score is the maximum over the six candidates, and when several share the
\* maximum, the lowest C among them.
TheoremC5 ==
  (pc = "returned" /\ Len(Res) = Len(C_range)) =>
     /\ Len(Res) = 6
     /\ \E i \in 1 .. 6 :
          /\ ret.kind = "return"
          /\ ret.val = C_range[i]
          /\ \A j \in 1 .. 6 : ~FracGt(Res[j], Res[i])
          /\ \A j \in 1 .. i - 1 : FracGt(Res[i], Res[j])
     /\ \A i \in 1 .. 5 : FracGt(C_range[i + 1], C_range[i])

\* a finished linear sweep whose maximum is shared by the second and a later
\* candidate and beats the first: the second candidate, C = 0.01, is returned
WitnessC5 ==
  /\ pc = "returned"
  /\ Len(Res) = 6
  /\ FracGt(Res[2], Res[1])
  /\ \E j \in 3 .. 6 : FracEq(Res[j], Res[2])
  /\ \A j \in 1 .. 6 : ~FracGt(Res[j], Res[2])
  /\ ret.val = << 1, 100 >>

\* C4: select_param_rbf returns a (C, gamma) pair of the grid together with
\* the maximum cross-validation score over the grid, whatever the scores
\* are, all of them 0 included.
ClaimC4 ==
  (pc = "returned" /\ ret.kind = "return") =>
     /\ ret.val[1] \in Grid
     /\ ret.val[2] \in Grid
     /\ ret.val[3] = seenmax

-----------------------------------------------------------------------------
(* The metric evaluator's claims, under SpecPerf *)

\* the label a prediction p stands for: +1 for p >= 0 and -1 for p < 0
Positive(i) == given[2][i] >= 0
TruePos == Cardinality({i \in DOMAIN given[1] : given[1][i] = 1 /\ Positive(i)})
FalseNeg == Cardinality({i \in DOMAIN given[1] : given[1][i] = 1 /\ ~Positive(i)})
FalsePos == Cardinality({i \in DOMAIN given[1] : given[1][i] = -1 /\ Positive(i)})
TrueNeg == Cardinality({i \in DOMAIN given[1] : given[1][i] = -1 /\ ~Positive(i)})

\* C1: performance(y_true, y_pred, 'specificity') returns
\* true-negative / (true-negative + false-positive) over the sign-binarized
\* predictions (zero counted as +1), and 0 when both counts are 0.
ClaimC1 ==
  (pc = "done" /\ metric = "specificity") =>
     /\ ret.kind = "return"
     /\ IF TrueNeg + FalsePos = 0
        THEN ret.val = << 0, 1 >>
        ELSE FracEq(ret.val, << TrueNeg, TrueNeg + FalsePos >>)

\* C2: performance(y_true, y_pred, 'sensitivity') is defined for every
\* input: it raises nothing and returns
\* true-positive / (true-positive + false-negative), which is exactly 0 when
\* y_true holds only -1.
ClaimC2 ==
  (pc = "done" /\ metric = "sensitivity") =>
     /\ ret.kind = "return"
     /\ IF TruePos + FalseNeg = 0
        THEN ret.val = << 0, 1 >>
        ELSE FracEq(ret.val, << TruePos, TruePos + FalseNeg >>)

\* C3: for a metric name that is none of the six, performance ends in an
\* error and never returns a numeric score.
ClaimC3 ==
  (pc = "done" /\ metric \notin KnownMetrics) => ret.kind = "raise"

\* C9: predictions are binarized by sign with exactly zero mapped to +1, and
\* 'accuracy' is the fraction of positions where the binarized prediction
\* equals the true label (0.75 for y_true = [1,1,-1,-1] and
\* y_pred = [2,0,-1,1]); the call leaves y_true and y_pred as they were.
TheoremC9 ==
  pc = "done" =>
     /\ y_true = given[1]
     /\ y_pred = given[2]
     /\ y_label = [i \in DOMAIN given[2] |-> IF Positive(i) THEN 1 ELSE -1]
     /\ metric = "accuracy" =>
          /\ ret.kind = "return"
          /\ FracEq(ret.val, << TruePos + TrueNeg, Len(given[1]) >>)
          /\ given = << << 1, 1, -1, -1 >>, << 2, 0, -1, 1 >> >> =>
               ret.val = << 3, 4 >>

\* a finished accuracy call on vectors holding a zero prediction, a
\* mismatch and a match
WitnessC9 ==
  /\ pc = "done"
  /\ metric = "accuracy"
  /\ ret.kind = "return"
  /\ \E i \in DOMAIN given[2] : given[2][i] = 0 /\ given[1][i] = 1
  /\ \E i \in DOMAIN given[2] : given[2][i] > 0 /\ given[1][i] = -1
  /\ \E i \in DOMAIN given[2] : given[2][i] < 0 /\ given[1][i] = -1
  /\ ret.val = << 3, 4 >>

=============================================================================
